---- MODULE Spec2Model ----
(***************************************************************************)
(* Model of readme_generator/make_readme.py: value_for_lang and the        *)
(* sequential run of generate_READMEs over a package directory, the shared *)
(* registry files and the translations directory.                          *)
(***************************************************************************)
EXTENDS Naturals, Sequences, FiniteSets, TLC

\* Number of language codes that may appear in the translations directory.
MaxLangs == 3
\* Number of consecutive runs of generate_READMEs on the same inputs.
MaxRuns == 2

AllLangs == <<"fr", "en", "fr_CA", "de", "pt">>

Langs == {AllLangs[n] : n \in 1..MaxLangs}

\* Unicode code points of the strings that get compared by the run.
CodePoints(s) ==
    CASE s = "fr" -> <<102, 114>>
      [] s = "en" -> <<101, 110>>
      [] s = "fr_CA" -> <<102, 114, 95, 67, 65>>
      [] s = "de" -> <<100, 101>>
      [] s = "pt" -> <<112, 116>>
      [] s = "pt_BR" -> <<112, 116, 95, 66, 82>>
      [] s = "es" -> <<101, 115>>
      [] s = "it" -> <<105, 116>>
      [] s = "zh_Hans" -> <<122, 104, 95, 72, 97, 110, 115>>
      [] s = "shot1.png" -> <<115, 104, 111, 116, 49, 46, 112, 110, 103>>
      [] s = "shot2.png" -> <<115, 104, 111, 116, 50, 46, 112, 110, 103>>
      [] s = ".gitkeep" -> <<46, 103, 105, 116, 107, 101, 101, 112>>
      [] s = "sub" -> <<115, 117, 98>>

\* Python's str.__lt__: lexicographic comparison of code points.
RECURSIVE SeqLess(_, _)
SeqLess(a, b) ==
    IF Len(b) = 0 THEN FALSE
    ELSE IF Len(a) = 0 THEN TRUE
    ELSE IF Head(a) < Head(b) THEN TRUE
    ELSE IF Head(b) < Head(a) THEN FALSE
    ELSE SeqLess(Tail(a), Tail(b))

StrLess(a, b) == SeqLess(CodePoints(a), CodePoints(b))

\* Insert x into the ascending sequence s, after the elements not greater than it.
RECURSIVE Insert(_, _)
Insert(x, s) ==
    IF Len(s) = 0 THEN <<x>>
    ELSE IF StrLess(x, Head(s)) THEN <<x>> \o s
    ELSE <<Head(s)>> \o Insert(x, Tail(s))

\* The list left in the order it was built in.
SortStringsSkipped(s) == s

\* list.sort() on a list of strings: stable, ascending.
RECURSIVE SortStrings(_)
SortStrings(s) ==
    IF Len(s) = 0 THEN <<>>
    ELSE Insert(s[Len(s)], SortStrings(SubSeq(s, 1, Len(s) - 1)))

--------------------------------------------------------------------------
\* Per-language text values: a plain string, or a mapping kept as the
\* sequence of its (key, string) items in insertion order.

Plain(s) == [isdict |-> FALSE, str |-> s, items |-> <<>>]

Mapping(items) == [isdict |-> TRUE, str |-> "", items |-> items]

Keys(values) == {values.items[n][1] : n \in 1..Len(values.items)}

\* values[k] for a key k of the mapping.
Lookup(values, k) ==
    values.items[CHOOSE n \in 1..Len(values.items) : values.items[n][1] = k][2]

\* Python truthiness of a string or a dict.
Truthy(values) ==
    IF values.isdict THEN Len(values.items) > 0 ELSE values.str # ""

\* The fallback to en tried before the language asked for.
value_for_lang_en_first(values, lang) ==
    IF ~values.isdict THEN values
    ELSE IF "en" \in Keys(values) THEN Plain(Lookup(values, "en"))
    ELSE IF lang \in Keys(values) THEN Plain(Lookup(values, lang))
    ELSE Plain(values.items[1][2])

value_for_lang(values, lang) ==
    IF ~values.isdict THEN values
    ELSE IF lang \in Keys(values) THEN Plain(Lookup(values, lang))
    ELSE IF "en" \in Keys(values) THEN Plain(Lookup(values, "en"))
    ELSE Plain(values.items[1][2])

--------------------------------------------------------------------------
\* Sentences and translations of the catalogs are sequences of Unicode
\* code points.

\* The code points c with chr(c).isspace(), the ones str.strip() removes:
\* \t \n \x0b \x0c \r, \x1c-\x1f, space, \x85, \xa0, U+1680, U+2000-U+200A,
\* U+2028, U+2029, U+202F, U+205F, U+3000.
Whitespace ==
    {9, 10, 11, 12, 13, 28, 29, 30, 31, 32, 133, 160, 5760}
        \cup (8192..8202)
        \cup {8232, 8233, 8239, 8287, 12288}

\* str.lstrip() / str.rstrip() / str.strip()
RECURSIVE LStrip(_)
LStrip(s) ==
    IF Len(s) > 0 /\ Head(s) \in Whitespace THEN LStrip(Tail(s)) ELSE s

RECURSIVE RStrip(_)
RStrip(s) ==
    IF Len(s) > 0 /\ s[Len(s)] \in Whitespace
    THEN RStrip(SubSeq(s, 1, Len(s) - 1))
    ELSE s

Strip(s) == RStrip(LStrip(s))

\* The inner loop of the completeness check, from the n-th reference
\* sentence on: FALSE at the first sentence that is missing or untranslated.
RECURSIVE CheckFrom(_, _, _)
CheckFrom(sentences, catalog, n) ==
    IF n > Len(sentences) THEN TRUE
    ELSE IF Strip(sentences[n]) = <<>> THEN CheckFrom(sentences, catalog, n + 1)
    ELSE IF sentences[n] \notin DOMAIN catalog THEN FALSE
    ELSE IF catalog[sentences[n]] = <<>> THEN FALSE
    ELSE CheckFrom(sentences, catalog, n + 1)

\* The check without the skip of the blank sentences.
is_fully_translated_blanks_count(sentences, catalog) ==
    \A n \in 1..Len(sentences) :
        /\ sentences[n] \in DOMAIN catalog
        /\ catalog[sentences[n]] # <<>>

is_fully_translated(sentences, catalog) == CheckFrom(sentences, catalog, 1)

--------------------------------------------------------------------------
VARIABLES
    \* the inputs of a run: the package directory, the shared registry,
    \* the translations directory and the reference catalog
    app_path_exists,      \* app_path.exists()
    manifest_on_disk,     \* manifest.json / manifest.toml of the package
    apps_toml,            \* apps.toml of the apps repository
    antifeatures_toml,    \* antifeatures.toml of the apps repository
    translations_dir,     \* TRANSLATIONS_DIR: os.listdir order and catalogs
    messages_pot,         \* messages.pot, the reference catalog
    doc_files,            \* the files of doc/ and their text
    screenshots_dir,      \* doc/screenshots and its entries
    \* the output files of the package directory
    files,
    \* the locals of generate_READMEs
    pc,
    manifest,
    upstream,
    from_catalog,
    antifeatures_list,
    sentences,
    listing,
    idx,
    fully_translated_langs,
    screenshots,
    links_to_other_READMEs,
    \* the observations of a run
    rendered,             \* the contexts given to template.render, in call order
    written,              \* the names of the files written by this run
    files_before,         \* the output files when this run started
    files_prev_run,       \* the output files when the previous run ended
    runs,
    \* a direct call of value_for_lang: its arguments and what it returned
    call

inputs == <<app_path_exists, manifest_on_disk, apps_toml, antifeatures_toml,
            translations_dir, messages_pot, doc_files, screenshots_dir>>

locals == <<manifest, upstream, from_catalog, antifeatures_list, sentences,
            listing, idx, fully_translated_langs, screenshots,
            links_to_other_READMEs>>

history == <<rendered, written, files_before, files_prev_run, runs>>

vars == <<inputs, files, pc, locals, history, call>>

None == "None"

NoManifest ==
    [format |-> "none", has_id |-> FALSE, has_upstream |-> FALSE,
     upstream |-> <<>>, antifeatures |-> [k \in {} |-> Plain("")]]

NoRegistry == [k \in {} |-> [title |-> Plain(""), description |-> Plain("")]]

Range(s) == {s[n] : n \in 1..Len(s)}

--------------------------------------------------------------------------
\* Lines 40-55: the package path, the manifest, the registry files.

\* json.load(manifest.json) if it exists, else toml.load(manifest.toml)
ManifestFile ==
    IF "manifest.json" \in DOMAIN manifest_on_disk THEN "manifest.json"
    ELSE "manifest.toml"

LoadRaises ==
    \/ ~app_path_exists
    \/ ManifestFile \notin DOMAIN manifest_on_disk
    \/ ~apps_toml.exists
    \/ ~manifest_on_disk[ManifestFile].has_id
    \/ ~antifeatures_toml.exists

LoadInputs ==
    /\ pc = "load"
    /\ IF LoadRaises
       THEN /\ pc' = "raised"
            /\ UNCHANGED locals
       ELSE /\ manifest' = manifest_on_disk[ManifestFile]
            /\ upstream' = IF manifest'.has_upstream THEN manifest'.upstream ELSE <<>>
            /\ from_catalog' = [antifeatures |-> apps_toml.antifeatures]
            /\ antifeatures_list' = antifeatures_toml.definitions
            /\ pc' = "guard"
            /\ UNCHANGED <<sentences, listing, idx, fully_translated_langs,
                           screenshots, links_to_other_READMEs>>
    /\ UNCHANGED <<call, inputs, files, history>>

\* The guard testing the presence of the key instead of its value.
ShallNotUpdateKeyOnly ==
    /\ ~manifest.has_upstream
    /\ "DISCLAIMER.md" \notin DOMAIN doc_files

\* Line 57: no upstream and no doc/DISCLAIMER.md.
ShallNotUpdate ==
    /\ Len(upstream) = 0
    /\ "DISCLAIMER.md" \notin DOMAIN doc_files

Guard ==
    /\ pc = "guard"
    /\ pc' = IF ShallNotUpdate THEN "skipped" ELSE "parse"
    /\ UNCHANGED <<call, inputs, files, locals, history>>

\* Lines 63-69: the reference catalog and the listing of TRANSLATIONS_DIR.
ParseAndList ==
    /\ pc = "parse"
    /\ IF ~messages_pot.exists \/ ~translations_dir.exists
       THEN /\ pc' = "raised"
            /\ UNCHANGED <<sentences, listing, idx, fully_translated_langs>>
       ELSE /\ sentences' = messages_pot.sentences
            /\ listing' = translations_dir.listdir
            /\ fully_translated_langs' = <<>>
            /\ idx' = 1
            /\ pc' = "check"
    /\ UNCHANGED <<call, inputs, files, manifest, upstream, from_catalog,
                   antifeatures_list, screenshots, links_to_other_READMEs,
                   history>>

\* Lines 70-95: one iteration of the loop over the listing.
CheckLanguage ==
    /\ pc = "check"
    /\ idx <= Len(listing)
    /\ LET available_translations == listing[idx]
           catalog == translations_dir.catalogs[available_translations]
       IN fully_translated_langs' =
              IF is_fully_translated(sentences, catalog)
              THEN Append(fully_translated_langs, available_translations)
              ELSE fully_translated_langs
    /\ idx' = idx + 1
    /\ UNCHANGED <<call, inputs, files, pc, manifest, upstream, from_catalog,
                   antifeatures_list, sentences, listing, screenshots,
                   links_to_other_READMEs, history>>

\* Lines 104-113: the files of doc/screenshots whose name has no leading
\* dot, in ascending order of path, relative to the package directory.
RECURSIVE PickScreenshots(_)
PickScreenshots(names) ==
    IF Len(names) = 0 THEN <<>>
    ELSE IF ~screenshots_dir.is_file[Head(names)] THEN PickScreenshots(Tail(names))
    ELSE IF Head(CodePoints(Head(names))) = 46 THEN PickScreenshots(Tail(names))
    ELSE <<"doc/screenshots/" \o Head(names)>> \o PickScreenshots(Tail(names))

FindScreenshots ==
    IF screenshots_dir.exists
    THEN PickScreenshots(SortStrings(screenshots_dir.iterdir))
    ELSE <<>>

\* Lines 97-113: leaving the loop, the sort and the screenshots.
SortLanguages ==
    /\ pc = "check"
    /\ idx > Len(listing)
    /\ fully_translated_langs' = SortStrings(fully_translated_langs)
    /\ screenshots' = FindScreenshots
    /\ pc' = "render_default"
    /\ UNCHANGED <<call, inputs, files, manifest, upstream, from_catalog,
                   antifeatures_list, sentences, listing, idx,
                   links_to_other_READMEs, history>>

--------------------------------------------------------------------------
\* generate_single_README(lang_suffix, lang), lines 115-169.

\* The localized file or nothing.
ResolveDocNoFallback(kind, lang_suffix) ==
    IF (kind \o lang_suffix \o ".md") \in DOMAIN doc_files
    THEN doc_files[kind \o lang_suffix \o ".md"]
    ELSE None

\* Lines 125-142: the localized file, else the base file, else None.
ResolveDoc(kind, lang_suffix) ==
    IF (kind \o lang_suffix \o ".md") \in DOMAIN doc_files
    THEN doc_files[kind \o lang_suffix \o ".md"]
    ELSE IF (kind \o ".md") \in DOMAIN doc_files
    THEN doc_files[kind \o ".md"]
    ELSE None

\* manifest.get("antifeatures", {}).get(k, None), None kept as the empty string
ManifestAntifeature(k) ==
    IF k \in DOMAIN manifest.antifeatures THEN manifest.antifeatures[k] ELSE Plain("")

\* Lines 149-158 for one key: v is the copy of the global definition.
DisplayRecord(k, v, lang) ==
    [title |-> value_for_lang(v.title, lang),
     description |->
         IF Truthy(ManifestAntifeature(k))
         THEN value_for_lang(ManifestAntifeature(k), lang)
         ELSE value_for_lang(v.description, lang)]

\* The display records with the keys the global registry lacks left out.
BuildAntifeaturesKnownOnly(lang) ==
    [raised |-> FALSE,
     records |-> [a \in Range(from_catalog.antifeatures) \cap DOMAIN antifeatures_list |->
                     DisplayRecord(a, antifeatures_list[a], lang)],
     registry |-> antifeatures_list]

\* The display records built on the global definitions themselves, which
\* keep the resolved title and description.
BuildAntifeaturesInPlace(lang) ==
    IF \E a \in Range(from_catalog.antifeatures) : a \notin DOMAIN antifeatures_list
    THEN [raised |-> TRUE,
          records |-> NoRegistry,
          registry |-> antifeatures_list]
    ELSE [raised |-> FALSE,
          records |-> [a \in Range(from_catalog.antifeatures) |->
                          DisplayRecord(a, antifeatures_list[a], lang)],
          registry |-> [a \in DOMAIN antifeatures_list |->
                           IF a \in Range(from_catalog.antifeatures)
                           THEN DisplayRecord(a, antifeatures_list[a], lang)
                           ELSE antifeatures_list[a]]]

\* Lines 145-158: the display records of the antifeatures of the package,
\* built on deep copies of the global definitions; a key of the registry
\* entry that the global registry lacks raises KeyError.  registry is the
\* global registry as the call leaves it.
BuildAntifeatures(lang) ==
    IF \E a \in Range(from_catalog.antifeatures) : a \notin DOMAIN antifeatures_list
    THEN [raised |-> TRUE,
          records |-> NoRegistry,
          registry |-> antifeatures_list]
    ELSE [raised |-> FALSE,
          records |-> [a \in Range(from_catalog.antifeatures) |->
                          DisplayRecord(a, antifeatures_list[a], lang)],
          registry |-> antifeatures_list]

\* Lines 160-168: the keyword arguments of template.render.
Context(lang, lang_suffix, records) ==
    [lang |-> lang,
     upstream |-> upstream,
     description |-> ResolveDoc("DESCRIPTION", lang_suffix),
     screenshots |-> screenshots,
     disclaimer |-> ResolveDoc("DISCLAIMER", lang_suffix),
     antifeatures |-> records,
     manifest |-> manifest]

\* The text a template renders from a context.
Render(template, context) == [template |-> template, context |-> context]

\* The text added to a file that exists instead of replacing it.
WriteTextAppend(fs, name, out) ==
    [f \in DOMAIN fs \cup {name} |->
        IF f # name THEN fs[f]
        ELSE IF name \in DOMAIN fs
        THEN [template |-> out.template, context |-> out.context,
              appended_to |-> fs[name].template]
        ELSE out]

\* Path.write_text: the file holds the text, whatever it held before.
WriteText(fs, name, out) ==
    [f \in DOMAIN fs \cup {name} |-> IF f = name THEN out ELSE fs[f]]

GenerateSingleREADME(lang_suffix, lang) ==
    LET built == BuildAntifeatures(lang)
        context == Context(lang, lang_suffix, built.records)
    IN IF built.raised
       THEN /\ pc' = "raised"
            /\ UNCHANGED <<files, antifeatures_list, rendered, written>>
       ELSE /\ antifeatures_list' = built.registry
            /\ rendered' = Append(rendered, [suffix |-> lang_suffix, context |-> context])
            /\ files' = WriteText(files, "README" \o lang_suffix \o ".md",
                                  Render("README.md.j2", context))
            /\ written' = written \cup {"README" \o lang_suffix \o ".md"}
            /\ pc' = "render_langs"

\* Line 171.
RenderDefault ==
    /\ pc = "render_default"
    /\ GenerateSingleREADME("", "en")
    /\ idx' = 1
    /\ UNCHANGED <<call, inputs, manifest, upstream, from_catalog, sentences, listing,
                   fully_translated_langs, screenshots, links_to_other_READMEs,
                   files_before, files_prev_run, runs>>

\* The loop over every listed language instead of the eligible ones.
RenderListedLanguage ==
    /\ pc = "render_langs"
    /\ idx <= Len(listing)
    /\ GenerateSingleREADME("_" \o listing[idx], listing[idx])
    /\ idx' = idx + 1
    /\ UNCHANGED <<call, inputs, manifest, upstream, from_catalog, sentences, listing,
                   fully_translated_langs, screenshots, links_to_other_READMEs,
                   files_before, files_prev_run, runs>>

\* Lines 173-174: one iteration.
RenderLanguage ==
    /\ pc = "render_langs"
    /\ idx <= Len(fully_translated_langs)
    /\ GenerateSingleREADME("_" \o fully_translated_langs[idx], fully_translated_langs[idx])
    /\ idx' = idx + 1
    /\ UNCHANGED <<call, inputs, manifest, upstream, from_catalog, sentences, listing,
                   fully_translated_langs, screenshots, links_to_other_READMEs,
                   files_before, files_prev_run, runs>>

\* Lines 178-185: the file name and the label of the link to one language.
LinkTo(language) ==
    <<"README_" \o language \o ".md",
      [msgid |-> "Read the README in %(language)s",
       catalog |-> language,
       language |-> <<"autonym", language>>]>>

\* Lines 176-186.
LinksTo(langs) == [n \in 1..Len(langs) |-> LinkTo(langs[n])]

\* Lines 176-192: the links and ALL_README.md.
WriteAllReadme ==
    /\ pc = "render_langs"
    /\ idx > Len(fully_translated_langs)
    /\ links_to_other_READMEs' = LinksTo(fully_translated_langs)
    /\ files' = WriteText(files, "ALL_README.md",
                          Render("ALL_README.md.j2",
                                 [links_to_other_READMEs |-> links_to_other_READMEs']))
    /\ written' = written \cup {"ALL_README.md"}
    /\ pc' = "done"
    /\ UNCHANGED <<call, inputs, manifest, upstream, from_catalog, antifeatures_list,
                   sentences, listing, idx, fully_translated_langs, screenshots,
                   rendered, files_before, files_prev_run, runs>>

Ended == pc \in {"done", "skipped", "raised"}

\* The tool is run again on the same inputs and the files it left.
RunAgain ==
    /\ Ended
    /\ runs < MaxRuns
    /\ runs' = runs + 1
    /\ files_prev_run' = files
    /\ files_before' = files
    /\ pc' = "load"
    /\ manifest' = NoManifest
    /\ upstream' = <<>>
    /\ from_catalog' = [antifeatures |-> <<>>]
    /\ antifeatures_list' = NoRegistry
    /\ sentences' = <<>>
    /\ listing' = <<>>
    /\ idx' = 1
    /\ fully_translated_langs' = <<>>
    /\ screenshots' = <<>>
    /\ links_to_other_READMEs' = <<>>
    /\ rendered' = <<>>
    /\ written' = {}
    /\ UNCHANGED <<call, inputs, files>>

Next ==
    \/ LoadInputs
    \/ Guard
    \/ ParseAndList
    \/ CheckLanguage
    \/ SortLanguages
    \/ RenderDefault
    \/ RenderLanguage
    \/ WriteAllReadme
    \/ RunAgain

--------------------------------------------------------------------------
\* A direct call of value_for_lang(values, lang).
CallValueForLang ==
    /\ pc = "call"
    /\ ~call.returned
    /\ call' = [call EXCEPT !.returned = TRUE,
                            !.result = value_for_lang(call.values, call.lang)]
    /\ UNCHANGED <<inputs, files, pc, locals, history>>

NextCall == CallValueForLang

--------------------------------------------------------------------------
\* The inputs the runs are explored on.

\* The sequences without repetition over S: the orders in which a
\* directory may list any of its possible contents.
Listings(S) ==
    {s \in UNION {[1..n -> S] : n \in 0..Cardinality(S)} :
        \A a, b \in DOMAIN s : a # b => s[a] # s[b]}

FirstLangs == [n \in 1..MaxLangs |-> AllLangs[n]]

\* Reference sentences: the header, a blank one, and two to translate.
\* "", " \x0b\xa0\u2003\n", "a", "\x0bb\u3000"
SHeader == <<>>
SBlank == <<32, 11, 160, 8195, 10>>
SHello == <<97>>
SPadded == <<11, 98, 12288>>

PotChoices == {<<SHeader, SHello, SBlank, SPadded>>, <<SHeader, SBlank>>, <<SPadded, SHello>>}

CatFull == (SHello :> <<120>>) @@ (SPadded :> <<32>>) @@ (SHeader :> <<104>>)
CatNoBlanks == (SHello :> <<120>>) @@ (SPadded :> <<121>>)
CatBlanksEmpty ==
    (SHello :> <<120>>) @@ (SPadded :> <<121>>) @@ (SBlank :> <<>>) @@ (SHeader :> <<>>)
CatMissing == (SHello :> <<120>>) @@ (SHeader :> <<104>>)
CatUntranslated == (SHello :> <<>>) @@ (SPadded :> <<121>>) @@ (SHeader :> <<104>>)
CatNull == [k \in {} |-> <<>>]

CatChoices == {CatFull, CatNoBlanks, CatBlanksEmpty, CatMissing, CatUntranslated, CatNull}

Stale == [template |-> "stale", context |-> [lang |-> "stale"]]

OutputNames ==
    {"README.md", "ALL_README.md"} \cup {"README_" \o AllLangs[n] \o ".md" : n \in 1..Len(AllLangs)}

NoFiles == [f \in {} |-> Stale]
StaleFiles == [f \in OutputNames |-> Stale]

DefaultManifest ==
    [format |-> "toml", has_id |-> TRUE, has_upstream |-> TRUE,
     upstream |-> <<<<"website", "http://x">>>>,
     antifeatures |-> [k \in {} |-> Plain("")]]

DefaultRegistry ==
    [k \in {"nonfree", "tracking"} |->
        [title |-> Mapping(<<<<"en", "title-en">>, <<"fr", "title-fr">>>>),
         description |-> Plain("description of " \o k)]]

DefaultScreenshots ==
    [exists |-> TRUE,
     iterdir |-> <<"shot2.png", ".gitkeep", "sub", "shot1.png">>,
     is_file |-> [e \in {"shot2.png", ".gitkeep", "sub", "shot1.png"} |-> e # "sub"]]

DocText(name) == "text of " \o name

\* Before the first run: nothing loaded, nothing observed.
InitLocals ==
    /\ manifest = NoManifest
    /\ upstream = <<>>
    /\ from_catalog = [antifeatures |-> <<>>]
    /\ antifeatures_list = NoRegistry
    /\ sentences = <<>>
    /\ listing = <<>>
    /\ idx = 1
    /\ fully_translated_langs = <<>>
    /\ screenshots = <<>>
    /\ links_to_other_READMEs = <<>>
    /\ rendered = <<>>
    /\ written = {}
    /\ files_before = files
    /\ files_prev_run = files
    /\ runs = 1

NoCall == [values |-> Plain(""), lang |-> "en", returned |-> FALSE, result |-> Plain("")]

\* generate_READMEs is about to run.
InitRun ==
    /\ InitLocals
    /\ pc = "load"
    /\ call = NoCall

\* A well-formed package and registry around the inputs a family varies.
InitDefaults ==
    /\ app_path_exists = TRUE
    /\ manifest_on_disk = ("manifest.toml" :> DefaultManifest)
    /\ apps_toml = [exists |-> TRUE, antifeatures |-> <<"nonfree">>]
    /\ antifeatures_toml = [exists |-> TRUE, definitions |-> DefaultRegistry]
    /\ doc_files = ("DESCRIPTION.md" :> DocText("DESCRIPTION.md"))
    /\ screenshots_dir = DefaultScreenshots

\* Every listing order of every set of language directories.
InitListings ==
    /\ InitDefaults
    /\ messages_pot = [exists |-> TRUE, sentences |-> <<SHeader, SHello, SBlank, SPadded>>]
    /\ \E l \in Listings(Langs), c \in [Langs -> {CatFull, CatMissing}] :
           translations_dir = [exists |-> TRUE, listdir |-> l, catalogs |-> c]
    /\ files \in {NoFiles, StaleFiles}
    /\ InitRun

\* Every catalog for every language, against every reference catalog.
InitCatalogs ==
    /\ InitDefaults
    /\ \E p \in PotChoices : messages_pot = [exists |-> TRUE, sentences |-> p]
    /\ \E c \in [Langs -> CatChoices] :
           translations_dir = [exists |-> TRUE, listdir |-> FirstLangs, catalogs |-> c]
    /\ files = StaleFiles
    /\ InitRun

InitTranslations == InitListings \/ InitCatalogs

SpecTranslations == InitTranslations /\ [][Next]_vars

--------------------------------------------------------------------------
\* The translation completeness check and what is written after it.

IsBlank(s) == \A n \in 1..Len(s) : s[n] \in Whitespace

\* Every reference sentence that is not blank is a key of the catalog of
\* the language and maps to a non-empty translation.
Covers(lang) ==
    \A s \in Range(messages_pot.sentences) :
        ~IsBlank(s) =>
            /\ s \in DOMAIN translations_dir.catalogs[lang]
            /\ translations_dir.catalogs[lang][s] # <<>>

AfterCheck == pc \in {"render_default", "render_langs", "done"}

\* The entries of the listing whose check is over.
Checked ==
    IF pc = "check" THEN {listing[n] : n \in 1..(idx - 1)}
    ELSE IF AfterCheck THEN Range(listing)
    ELSE {}

\* C1: every language directory whose check is over is in
\* fully_translated_langs if and only if every reference sentence that is
\* not blank is a key of its catalog with a non-empty translation, whatever
\* the blank sentences and the other languages are.
C1_FullyTranslatedIffCovered ==
    \A lang \in Checked : lang \in Range(fully_translated_langs) <=> Covers(lang)

\* A finished run with an eligible language whose catalog lacks a blank
\* reference sentence, next to a language that failed.
C1_Witness ==
    /\ pc = "done"
    /\ \E a, b \in Range(listing) :
        /\ a \in Range(fully_translated_langs)
        /\ b \notin Range(fully_translated_langs)
        /\ \E s \in Range(sentences) : IsBlank(s) /\ s \notin DOMAIN translations_dir.catalogs[a]

LinkNames == [n \in 1..Len(links_to_other_READMEs) |-> links_to_other_READMEs[n][1]]

\* C2: after the check, fully_translated_langs is in strictly ascending
\* order of language code, whatever the order of the listing, and the links
\* given to ALL_README.md name the languages in that same order.
C2_SortedAndLinkedInOrder ==
    /\ AfterCheck =>
           \A n \in 1..(Len(fully_translated_langs) - 1) :
               StrLess(fully_translated_langs[n], fully_translated_langs[n + 1])
    /\ pc = "done" =>
        /\ LinkNames = [n \in 1..Len(fully_translated_langs) |->
                           "README_" \o fully_translated_langs[n] \o ".md"]
        /\ files["ALL_README.md"].context.links_to_other_READMEs = links_to_other_READMEs

\* A finished run whose listing gave two eligible languages in descending order.
C2_Witness ==
    /\ pc = "done"
    /\ \E a, b \in 1..Len(listing) :
        /\ a < b
        /\ StrLess(listing[b], listing[a])
        /\ {listing[a], listing[b]} \subseteq Range(fully_translated_langs)

ReadmeOf(lang) == "README_" \o lang \o ".md"

\* C6: a run that passes the guard and completes has written exactly
\* README.md, ALL_README.md and README_<lang>.md for the fully translated
\* languages; every other file, the README_<lang>.md of a language that
\* failed the check among them, is as it was before the run.
C6_WrittenExactly ==
    pc = "done" =>
        /\ written = {"README.md", "ALL_README.md"}
                        \cup {ReadmeOf(lang) : lang \in Range(fully_translated_langs)}
        /\ DOMAIN files = DOMAIN files_before \cup written
        /\ \A f \in DOMAIN files \ written : files[f] = files_before[f]
        /\ \A lang \in Range(listing) :
               ~Covers(lang) =>
                   /\ ReadmeOf(lang) \notin written
                   /\ ReadmeOf(lang) \in DOMAIN files =>
                          /\ ReadmeOf(lang) \in DOMAIN files_before
                          /\ files[ReadmeOf(lang)] = files_before[ReadmeOf(lang)]

\* A finished run where no language is fully translated: README.md is
\* written and the stale README of a failed language is still there.
C6_Witness ==
    /\ pc = "done"
    /\ fully_translated_langs = <<>>
    /\ "README.md" \in written
    /\ \E lang \in Range(listing) : ReadmeOf(lang) \in DOMAIN files

\* C7: the links given to ALL_README.md are one per eligible language other
\* than the default language en, and none for en.
C7_LinksExcludeDefault ==
    pc = "done" =>
        /\ Range(LinkNames) = {ReadmeOf(lang) : lang \in Range(fully_translated_langs) \ {"en"}}
        /\ Len(LinkNames) = Cardinality(Range(fully_translated_langs) \ {"en"})

--------------------------------------------------------------------------
\* The errors of a run and the guard.

UpstreamChoices ==
    {[has_upstream |-> FALSE, upstream |-> <<>>],
     [has_upstream |-> TRUE, upstream |-> <<>>],
     [has_upstream |-> TRUE, upstream |-> <<<<"website", "http://x">>>>]}

ManifestWith(format, has_id, u, overrides) ==
    [format |-> format, has_id |-> has_id, has_upstream |-> u.has_upstream,
     upstream |-> u.upstream, antifeatures |-> overrides]

\* The first language lacks a translation, the others are complete.
MixedCatalogs == [l \in Langs |-> IF l = AllLangs[1] THEN CatMissing ELSE CatFull]

\* Every combination of a missing package path, manifest, id, upstream,
\* registry file, disclaimer, translations directory and reference catalog,
\* and of a registry entry naming an antifeature the registry lacks.
InitErrors ==
    /\ app_path_exists \in BOOLEAN
    /\ \E present \in SUBSET {"manifest.json", "manifest.toml"},
          has_id \in BOOLEAN, u \in UpstreamChoices :
           manifest_on_disk =
               [f \in present |-> ManifestWith(f, has_id, u, [k \in {} |-> Plain("")])]
    /\ \E e \in BOOLEAN, a \in {<<>>, <<"nonfree">>, <<"nonfree", "ghost">>} :
           apps_toml = [exists |-> e, antifeatures |-> a]
    /\ \E e \in BOOLEAN : antifeatures_toml = [exists |-> e, definitions |-> DefaultRegistry]
    /\ \E d \in SUBSET {"DISCLAIMER.md"} : doc_files = [f \in d |-> DocText(f)]
    /\ screenshots_dir = DefaultScreenshots
    /\ \E e \in BOOLEAN :
           translations_dir = [exists |-> e, listdir |-> FirstLangs, catalogs |-> MixedCatalogs]
    /\ \E e \in BOOLEAN :
           messages_pot = [exists |-> e, sentences |-> <<SHeader, SHello, SBlank, SPadded>>]
    /\ files \in {NoFiles, StaleFiles}
    /\ InitRun

SpecErrors == InitErrors /\ [][Next]_vars

\* The package directory holds a manifest with its id.
PackageAndManifest ==
    /\ app_path_exists
    /\ ManifestFile \in DOMAIN manifest_on_disk
    /\ manifest_on_disk[ManifestFile].has_id

\* The manifest of the package has no upstream key, or an empty upstream.
NoUpstreamOnDisk ==
    \/ ~manifest_on_disk[ManifestFile].has_upstream
    \/ Len(manifest_on_disk[ManifestFile].upstream) = 0

NoDisclaimer == "DISCLAIMER.md" \notin DOMAIN doc_files

SkipCase == PackageAndManifest /\ NoUpstreamOnDisk /\ NoDisclaimer

Untouched == files = files_before /\ written = {}

\* Lines 40-55 complete: the manifest and both registry files load.
Loaded ==
    /\ PackageAndManifest
    /\ apps_toml.exists
    /\ antifeatures_toml.exists

\* C4 as stated: with no upstream and no doc/DISCLAIMER.md the run returns
\* normally and leaves the files of the package directory as they were.
C4_SkipReturnsNormally ==
    (Ended /\ SkipCase) => (pc = "skipped" /\ Untouched)

\* C4 amended: with no upstream and no doc/DISCLAIMER.md the run leaves the
\* files of the package directory as they were; it returns normally when
\* apps.toml and antifeatures.toml load, and raises the error of the load
\* otherwise.
C4_SkipLeavesFilesAsTheyWere ==
    (Ended /\ SkipCase) =>
        /\ Untouched
        /\ pc = IF Loaded THEN "skipped" ELSE "raised"

\* A run skipped for a manifest with an empty upstream, the files of an
\* earlier generation still in place.
C4_Witness ==
    /\ pc = "skipped"
    /\ manifest.has_upstream
    /\ NoDisclaimer
    /\ files = StaleFiles
    /\ ~translations_dir.exists

\* The registry entry of the package lists a key the global registry lacks.
UnknownAntifeature ==
    /\ apps_toml.exists
    /\ antifeatures_toml.exists
    /\ \E a \in Range(apps_toml.antifeatures) : a \notin DOMAIN antifeatures_toml.definitions

EarlyConfigError ==
    \/ ~PackageAndManifest
    \/ ~apps_toml.exists
    \/ ~antifeatures_toml.exists

LateConfigError == ~translations_dir.exists \/ UnknownAntifeature

\* C9 as stated: a missing package path, manifest, registry file or
\* translations directory, or an unknown antifeature key, ends the run with
\* an error and the output files as they were.
C9_ConfigErrorRaises ==
    (Ended /\ (EarlyConfigError \/ LateConfigError)) => (pc = "raised" /\ Untouched)

\* C9 amended: every error is raised before the first file is written; a
\* missing package path, manifest or registry file ends the run with an
\* error; a missing translations directory or an unknown antifeature key
\* ends it with an error unless the guard skips the run first; in all these
\* cases the output files are as they were.
C9_ErrorsBeforeFirstWrite ==
    /\ pc = "raised" => Untouched
    /\ (Ended /\ EarlyConfigError) => (pc = "raised" /\ Untouched)
    /\ (Ended /\ Loaded /\ LateConfigError) =>
           /\ Untouched
           /\ pc = IF SkipCase THEN "skipped" ELSE "raised"

\* A run that passed the guard and the check and raised on the unknown
\* antifeature key, the files of an earlier generation still in place.
C9_Witness ==
    /\ pc = "raised"
    /\ Loaded
    /\ UnknownAntifeature
    /\ translations_dir.exists
    /\ Len(fully_translated_langs) > 0
    /\ files = StaleFiles

--------------------------------------------------------------------------
\* The description and the disclaimer of each rendered language.

DocNames ==
    {kind \o suffix \o ".md" :
        kind \in {"DESCRIPTION", "DISCLAIMER"},
        suffix \in {"", "_" \o AllLangs[1], "_" \o AllLangs[2]}}

\* Every set of description and disclaimer files, with and without upstream.
InitDocs ==
    /\ app_path_exists = TRUE
    /\ \E u \in UpstreamChoices :
           manifest_on_disk =
               ("manifest.toml" :> ManifestWith("manifest.toml", TRUE, u, [k \in {} |-> Plain("")]))
    /\ apps_toml = [exists |-> TRUE, antifeatures |-> <<"nonfree">>]
    /\ antifeatures_toml = [exists |-> TRUE, definitions |-> DefaultRegistry]
    /\ \E d \in SUBSET DocNames : doc_files = [f \in d |-> DocText(f)]
    /\ screenshots_dir = DefaultScreenshots
    /\ \E c \in {MixedCatalogs, [l \in Langs |-> CatFull]} :
           translations_dir = [exists |-> TRUE, listdir |-> FirstLangs, catalogs |-> c]
    /\ messages_pot = [exists |-> TRUE, sentences |-> <<SHeader, SHello, SBlank, SPadded>>]
    /\ files = StaleFiles
    /\ InitRun

SpecDocs == InitDocs /\ [][Next]_vars

\* The text of doc/<kind><suffix>.md if that file exists, else the text of
\* doc/<kind>.md if it exists, else None.
IsResolved(text, kind, suffix) ==
    /\ (kind \o suffix \o ".md") \in DOMAIN doc_files =>
           text = DocText(kind \o suffix \o ".md")
    /\ ((kind \o suffix \o ".md") \notin DOMAIN doc_files
            /\ (kind \o ".md") \in DOMAIN doc_files) =>
           text = DocText(kind \o ".md")
    /\ ((kind \o suffix \o ".md") \notin DOMAIN doc_files
            /\ (kind \o ".md") \notin DOMAIN doc_files) =>
           text = None

RenderedSuffixes == {rendered[n].suffix : n \in 1..Len(rendered)}

\* C5: the description and the disclaimer given to the template for a
\* language with suffix S are each, on its own, the text of the file with
\* suffix S, else of the base file, else None; with both files absent the
\* README of the language is written all the same.
C5_DescriptionAndDisclaimerFallBack ==
    /\ \A n \in 1..Len(rendered) :
        LET r == rendered[n] IN
        /\ IsResolved(r.context.description, "DESCRIPTION", r.suffix)
        /\ IsResolved(r.context.disclaimer, "DISCLAIMER", r.suffix)
        /\ ("README" \o r.suffix \o ".md") \in written
        /\ files["README" \o r.suffix \o ".md"] = Render("README.md.j2", r.context)
    /\ pc = "done" =>
           RenderedSuffixes = {""} \cup {"_" \o l : l \in Range(fully_translated_langs)}

\* A translated README rendered with the description of the base file and
\* no disclaimer at all, although a localized file of another language exists.
C5_Witness ==
    /\ pc = "done"
    /\ \E n \in 1..Len(rendered) :
        /\ rendered[n].suffix # ""
        /\ rendered[n].context.description = DocText("DESCRIPTION.md")
        /\ rendered[n].context.disclaimer = None
    /\ \E m \in 1..Len(rendered) :
        /\ rendered[m].suffix # ""
        /\ rendered[m].context.description = DocText("DESCRIPTION" \o rendered[m].suffix \o ".md")

--------------------------------------------------------------------------
\* The antifeature records of each rendered language.

TextChoices(p) ==
    {Plain(p),
     Mapping(<<<<"en", p \o "-en">>, <<"fr", p \o "-fr">>>>),
     Mapping(<<<<"fr", p \o "-fr">>, <<"en", p \o "-en">>>>),
     Mapping(<<<<"de", p \o "-de">>, <<"fr", p \o "-fr">>>>)}

OverrideChoices ==
    {Plain(""), Mapping(<<>>), Plain("override"),
     Mapping(<<<<"fr", "override-fr">>, <<"en", "override-en">>>>),
     Mapping(<<<<"de", "override-de">>, <<"fr", "override-fr">>>>)}

\* Every shape of title, description and manifest override of an
\* antifeature, for every list of antifeatures of the package.
InitAntifeatures ==
    /\ app_path_exists = TRUE
    /\ \E o \in OverrideChoices, keys \in SUBSET {"nonfree"} :
           manifest_on_disk =
               ("manifest.toml" :>
                    ManifestWith("manifest.toml", TRUE,
                                 [has_upstream |-> TRUE, upstream |-> <<<<"website", "http://x">>>>],
                                 [k \in keys |-> o]))
    /\ \E a \in {<<>>, <<"nonfree">>, <<"tracking", "nonfree">>} :
           apps_toml = [exists |-> TRUE, antifeatures |-> a]
    /\ \E t \in TextChoices("title"), d \in TextChoices("description") :
           antifeatures_toml =
               [exists |-> TRUE,
                definitions |-> [k \in {"nonfree", "tracking"} |->
                                    IF k = "nonfree"
                                    THEN [title |-> t, description |-> d]
                                    ELSE DefaultRegistry[k]]]
    /\ doc_files = ("DESCRIPTION.md" :> DocText("DESCRIPTION.md"))
    /\ screenshots_dir = DefaultScreenshots
    /\ translations_dir =
           [exists |-> TRUE, listdir |-> FirstLangs, catalogs |-> [l \in Langs |-> CatFull]]
    /\ messages_pot = [exists |-> TRUE, sentences |-> <<SHeader, SHello, SBlank, SPadded>>]
    /\ files = NoFiles
    /\ InitRun

SpecAntifeatures == InitAntifeatures /\ [][Next]_vars

\* The manifest has a non-empty override for the key.
HasOverride(k) ==
    /\ k \in DOMAIN manifest_on_disk[ManifestFile].antifeatures
    /\ Truthy(manifest_on_disk[ManifestFile].antifeatures[k])

InRun == pc \in {"guard", "parse", "check", "render_default", "render_langs", "done", "skipped"}

\* C8: for every rendered language and every antifeature key of the
\* registry entry, the record given to the template has the title resolved
\* from the global definition as loaded, and the description resolved from
\* the manifest override when it is non-empty, else from the global
\* definition as loaded; the loaded registry and manifest never change.
C8_AntifeatureRecordsFromLoadedRegistry ==
    /\ \A n \in 1..Len(rendered) :
        LET lang == rendered[n].context.lang
            records == rendered[n].context.antifeatures
            loaded == antifeatures_toml.definitions
        IN /\ DOMAIN records = Range(apps_toml.antifeatures)
           /\ \A k \in DOMAIN records :
               /\ records[k].title = value_for_lang(loaded[k].title, lang)
               /\ records[k].description =
                      IF HasOverride(k)
                      THEN value_for_lang(manifest_on_disk[ManifestFile].antifeatures[k], lang)
                      ELSE value_for_lang(loaded[k].description, lang)
    /\ InRun =>
        /\ antifeatures_list = antifeatures_toml.definitions
        /\ manifest = manifest_on_disk[ManifestFile]

\* A finished run whose later language got a title other than the one of
\* the default language, and a description from the manifest override.
C8_Witness ==
    /\ pc = "done"
    /\ HasOverride("nonfree")
    /\ \E n \in 2..Len(rendered) :
        /\ "nonfree" \in DOMAIN rendered[n].context.antifeatures
        /\ rendered[n].context.antifeatures["nonfree"].title
               # rendered[1].context.antifeatures["nonfree"].title
        /\ rendered[n].context.antifeatures["nonfree"].description
               # rendered[1].context.antifeatures["nonfree"].description

--------------------------------------------------------------------------
\* value_for_lang on its own.

CallValues ==
    {Plain("hello"), Plain("")}
        \cup {Mapping([n \in DOMAIN ks |-> <<ks[n], "text-" \o ks[n]>>]) :
                 ks \in Listings({"en", "fr", "de"}) \ {<<>>}}

CallLangs == {"en", "fr", "de", "it"}

InitCall ==
    /\ InitDefaults
    /\ translations_dir =
           [exists |-> TRUE, listdir |-> FirstLangs, catalogs |-> [l \in Langs |-> CatFull]]
    /\ messages_pot = [exists |-> TRUE, sentences |-> <<SHeader, SHello, SBlank, SPadded>>]
    /\ files = NoFiles
    /\ InitLocals
    /\ pc = "call"
    /\ \E v \in CallValues, l \in CallLangs :
           call = [values |-> v, lang |-> l, returned |-> FALSE, result |-> Plain("")]

SpecCall == InitCall /\ [][NextCall]_vars

\* The mapping has the item (k, text).
HasItem(values, k, text) ==
    \E n \in 1..Len(values.items) : values.items[n] = <<k, text>>

\* C3: value_for_lang returns values unchanged when it is not a mapping;
\* else values[lang] when lang is a key; else values["en"] when en is a
\* key; else the first value in insertion order.
C3_ValueForLangPriority ==
    call.returned =>
        LET values == call.values
            lang == call.lang
            result == call.result
        IN /\ ~values.isdict => result = values
           /\ values.isdict =>
               /\ ~result.isdict
               /\ lang \in Keys(values) => HasItem(values, lang, result.str)
               /\ (lang \notin Keys(values) /\ "en" \in Keys(values)) =>
                      HasItem(values, "en", result.str)
               /\ (lang \notin Keys(values) /\ "en" \notin Keys(values)) =>
                      result.str = values.items[1][2]

\* A call on a mapping of two languages without en, for a third language.
C3_Witness ==
    /\ call.returned
    /\ call.values.isdict
    /\ Len(call.values.items) = 2
    /\ call.lang \notin Keys(call.values)
    /\ "en" \notin Keys(call.values)
    /\ call.result = Plain(call.values.items[1][2])

--------------------------------------------------------------------------
\* Runs repeated on the same inputs.

Init == InitTranslations \/ InitErrors \/ InitDocs \/ InitAntifeatures

Spec == Init /\ [][Next]_vars

\* C10: a run that follows another run on the same inputs ends with the
\* files of the package directory as the run before it left them.
C10_SecondRunChangesNothing ==
    (Ended /\ runs >= 2) => files = files_prev_run

\* A second run that is over and wrote the translated READMEs again.
C10_Witness ==
    /\ pc = "done"
    /\ runs = 2
    /\ Len(fully_translated_langs) >= 2
    /\ Cardinality(written) >= 4
    /\ files = files_prev_run

====
